---------------------------- MODULE Spec2Model ----------------------------
(***************************************************************************)
(* A model of CalcBlowingSnow.c (VIC): the wind-distribution driver        *)
(* CalcBlowingSnow, the flux assembler CalcSubFlux, the root solver        *)
(* rtnewt on get_shear, and the Romberg integrator qromb / trapzd /        *)
(* polint on sub_with_height.                                              *)
(*                                                                         *)
(* C doubles are modelled by decimal floating point numbers <<m, e>>       *)
(* (value m * 10^e, 8 significant digits, results rounded), with the IEEE   *)
(* special values Inf, -Inf and NaN and their arithmetic.                  *)
(***************************************************************************)
EXTENDS Integers, Sequences, FiniteSets, TLC

---------------------------------------------------------------------------
(* Double arithmetic.                                                      *)

SPECIAL == 9999              \* the exponent that marks Inf, -Inf and NaN
NaN     == <<0, SPECIAL>>
PInf    == <<1, SPECIAL>>
NInf    == <<-1, SPECIAL>>
Zero    == <<0, 0>>

IsNaN(x)    == x[2] = SPECIAL /\ x[1] = 0
IsInf(x)    == x[2] = SPECIAL /\ x[1] # 0

IAbs(n) == IF n < 0 THEN -n ELSE n
ISgn(n) == IF n < 0 THEN -1 ELSE IF n > 0 THEN 1 ELSE 0
\* integer division that truncates toward zero
TDiv(a, b) == ISgn(a) * ISgn(b) * (IAbs(a) \div IAbs(b))

\* the number of decimal digits of n > 0 (n < 2^31)
Digits(n) ==
    IF n < 10000
    THEN (IF n < 100 THEN (IF n < 10 THEN 1 ELSE 2)
                     ELSE (IF n < 1000 THEN 3 ELSE 4))
    ELSE IF n < 100000000
    THEN (IF n < 1000000 THEN (IF n < 100000 THEN 5 ELSE 6)
                         ELSE (IF n < 10000000 THEN 7 ELSE 8))
    ELSE (IF n < 1000000000 THEN 9 ELSE 10)

\* the double of sign sg, mantissa mm (8 digits) and exponent ee: Inf above
\* DBL_MAX, 0 below the smallest double
Ranged(sg, mm, ee) ==
    IF ee > 301 \/ (ee = 301 /\ mm > 17976931)
    THEN (IF sg > 0 THEN PInf ELSE NInf)
    ELSE IF ee < -330 THEN Zero
    ELSE <<sg * mm, ee>>

\* r is a mantissa rounded to 8 digits: rounding up may have given a ninth
Carried[sg \in Int, r \in Int, ee \in Int] ==
    IF r >= 100000000 THEN Ranged(sg, r \div 10, ee + 1) ELSE Ranged(sg, r, ee)

\* the integer m of dg digits, times 10^e, rounded to 8 digits
Rounded[m \in Int, e \in Int, dg \in Int] ==
    Carried[ISgn(m),
            IF dg > 8 THEN (IAbs(m) + 5 * 10 ^ (dg - 9)) \div 10 ^ (dg - 8)
                      ELSE IAbs(m) * 10 ^ (8 - dg),
            e + dg - 8]

\* m * 10^e as a double
Norm[m, e \in Int] == IF m = 0 THEN Zero ELSE Rounded[m, e, Digits(IAbs(m))]

\* the decimal literal m * 10^e; Lit(n, 0) is the integer n as a double
Lit(m, e) == Norm[m, e]

\* the doubles
Dbl == Int \X Int

FNeg[x \in Dbl] == <<-x[1], x[2]>>
FAbs[x \in Dbl] == <<IAbs(x[1]), x[2]>>

\* big + sml for finite nonzero doubles, big the one of the larger exponent
AddAligned(big, sml) ==
    IF big[2] - sml[2] > 9 THEN big
    ELSE Norm[big[1] * 10 + TDiv(sml[1] * 10, 10 ^ (big[2] - sml[2])),
              big[2] - 1]

FAdd[x \in Dbl, y \in Dbl] ==
    IF IsNaN(x) \/ IsNaN(y) THEN NaN
    ELSE IF IsInf(x) THEN (IF IsInf(y) /\ x[1] # y[1] THEN NaN ELSE x)
    ELSE IF IsInf(y) THEN y
    ELSE IF x[1] = 0 THEN y
    ELSE IF y[1] = 0 THEN x
    ELSE IF x[2] >= y[2] THEN AddAligned(x, y) ELSE AddAligned(y, x)

FSub[x \in Dbl, y \in Dbl] == FAdd[x, FNeg[y]]

\* the product of the mantissas a1 * 10^4 + b1 and a2 * 10^4 + b2, divided
\* by 10^7
MulLimbs(a1, b1, a2, b2) ==
    10 * a1 * a2 + ((a1 * b2 + a2 * b1 + (b1 * b2) \div 10000) \div 1000)

FMul[x \in Dbl, y \in Dbl] ==
    IF IsNaN(x) \/ IsNaN(y) THEN NaN
    ELSE IF IsInf(x) \/ IsInf(y)
    THEN (IF x[1] = 0 \/ y[1] = 0 THEN NaN
          ELSE IF ISgn(x[1]) = ISgn(y[1]) THEN PInf ELSE NInf)
    ELSE IF x[1] = 0 \/ y[1] = 0 THEN Zero
    ELSE Norm[ISgn(x[1]) * ISgn(y[1])
                * MulLimbs(IAbs(x[1]) \div 10000, IAbs(x[1]) % 10000,
                           IAbs(y[1]) \div 10000, IAbs(y[1]) % 10000),
              x[2] + y[2] + 7]

\* one step of long division by d: rq is <<remainder * 10, quotient so far>>
DivStep[rq \in Dbl, d \in Int] ==
    <<(rq[1] % d) * 10, rq[2] * 10 + rq[1] \div d>>

\* the first nine digits of a / d, for 0 < a < 10^8 and 10^7 <= d < 10^8
DivDigits[a \in Int, d \in Int] ==
    DivStep[DivStep[DivStep[DivStep[DivStep[DivStep[DivStep[DivStep[DivStep[
        <<a, 0>>, d], d], d], d], d], d], d], d], d][2]

FDiv[x \in Dbl, y \in Dbl] ==
    IF IsNaN(x) \/ IsNaN(y) THEN NaN
    ELSE IF IsInf(x)
    THEN (IF IsInf(y) THEN NaN
          ELSE IF ISgn(x[1]) * (IF y[1] < 0 THEN -1 ELSE 1) > 0 THEN PInf ELSE NInf)
    ELSE IF IsInf(y) THEN Zero
    ELSE IF y[1] = 0
    THEN (IF x[1] = 0 THEN NaN ELSE IF x[1] > 0 THEN PInf ELSE NInf)
    ELSE IF x[1] = 0 THEN Zero
    ELSE Norm[ISgn(x[1]) * ISgn(y[1]) * DivDigits[IAbs(x[1]), IAbs(y[1])],
              x[2] - y[2] - 8]

\* x < y for doubles that are not NaN
Below[x \in Dbl, y \in Dbl] ==
    IF IsInf(x) \/ IsInf(y)
    THEN (IF IsInf(x) /\ IsInf(y) THEN x[1] < y[1]
          ELSE IF IsInf(x) THEN x[1] < 0 ELSE y[1] > 0)
    ELSE IF ISgn(x[1]) # ISgn(y[1]) THEN ISgn(x[1]) < ISgn(y[1])
    ELSE IF x[1] = 0 THEN FALSE
    ELSE IF x[2] # y[2] THEN (IF x[1] > 0 THEN x[2] < y[2] ELSE x[2] > y[2])
    ELSE x[1] < y[1]

\* the C comparisons: every comparison with a NaN is false, but !=
FLt[x \in Dbl, y \in Dbl] == ~IsNaN(x) /\ ~IsNaN(y) /\ Below[x, y]
FGt[x \in Dbl, y \in Dbl] == FLt[y, x]
FEq[x \in Dbl, y \in Dbl] == ~IsNaN(x) /\ ~IsNaN(y) /\ x = y
FLe[x \in Dbl, y \in Dbl] == ~IsNaN(x) /\ ~IsNaN(y) /\ ~Below[y, x]
FGe[x \in Dbl, y \in Dbl] == FLe[y, x]
FNe[x \in Dbl, y \in Dbl] == ~FEq[x, y]

\* floor of a finite double of magnitude below 10^9, as an integer
FloorInt(x) ==
    IF x[2] >= 0 THEN x[1] * 10 ^ x[2]
    ELSE IF -x[2] > 9 THEN (IF x[1] < 0 THEN -1 ELSE 0)
    ELSE x[1] \div 10 ^ (-x[2])

One    == Lit(1, 0)
Two    == Lit(2, 0)
Half   == Lit(5, -1)
LN10   == Lit(23025851, -7)

\* one Horner step of the Taylor series of exp: 1 + (y / k) p
ExpStep[y \in Dbl, k \in Int, p \in Dbl] ==
    FAdd[One, FDiv[FMul[y, p], Lit(k, 0)]]

\* 1 + y/1 (1 + y/2 (1 + ... (1 + y/8))): the Taylor series of exp, by Horner
ExpSeries[y \in Dbl] ==
    ExpStep[y, 1, ExpStep[y, 2, ExpStep[y, 3, ExpStep[y, 4,
    ExpStep[y, 5, ExpStep[y, 6, ExpStep[y, 7, ExpStep[y, 8, One]]]]]]]]

Sq[p \in Dbl] == FMul[p, p]

\* p * 10^n
Scaled[p \in Dbl, n \in Int] == Norm[p[1], p[2] + n]

\* 10^n * exp(f ln 10) for t = n + f, 0 <= f < 1, as (exp(f ln 10 / 8))^8
ExpSplit[t \in Dbl, n \in Int] ==
    Scaled[Sq[Sq[Sq[ExpSeries[FMul[FMul[FSub[t, Lit(n, 0)], LN10],
                                   Lit(125, -3)]]]]], n]

\* exp(t ln 10)
Exp10[t \in Dbl] == ExpSplit[t, FloorInt(t)]

\* exp(x) of <math.h>: 10^(x log10(e))
FExp[x \in Dbl] ==
    IF IsNaN(x) THEN NaN
    ELSE IF IsInf(x) THEN (IF x[1] > 0 THEN PInf ELSE Zero)
    ELSE IF FGt[x, Lit(710, 0)] THEN PInf
    ELSE IF FLt[x, Lit(-745, 0)] THEN Zero
    ELSE Exp10[FMul[x, Lit(43429448, -8)]]

\* one Horner step of the series of atanh: 1 / (2 k + 1) + w p
LnStep[w \in Dbl, k \in Int, p \in Dbl] ==
    FAdd[FDiv[One, Lit(2 * k + 1, 0)], FMul[w, p]]

\* 1/1 + w/3 + w^2/5 + ... : the series of atanh(z)/z in w = z^2, by Horner
LnSeries[w \in Dbl] ==
    LnStep[w, 0, LnStep[w, 1, LnStep[w, 2, LnStep[w, 3, LnStep[w, 4,
    LnStep[w, 5, LnStep[w, 6, LnStep[w, 7, LnStep[w, 8, Zero]]]]]]]]]

\* 2 atanh(z) = 2 z (1 + z^2/3 + z^4/5 + ...)
Atanh2[z \in Dbl] == FMul[FMul[Two, z], LnSeries[FMul[z, z]]]

\* ln(u) for 1 <= u < 2: 2 atanh((u - 1) / (u + 1))
LnUnit[u \in Dbl] == Atanh2[FDiv[FSub[u, One], FAdd[u, One]]]

\* ln of (t / 10^7) * 10^(e + 7), with 2^k <= t / 10^7 < 2^(k + 1):
\* ln(t / 10^7 / 2^k) + k ln 2 + (e + 7) ln 10
LnSplit[t \in Int, e \in Int, k \in Int] ==
    FAdd[FAdd[LnUnit[FDiv[<<t, -7>>, Lit(2 ^ k, 0)]], FMul[Lit(k, 0), Lit(69314718, -8)]],
         FMul[Lit(e + 7, 0), LN10]]

\* log(x) of <math.h>
FLn[x \in Dbl] ==
    IF IsNaN(x) THEN NaN
    ELSE IF IsInf(x) THEN (IF x[1] > 0 THEN PInf ELSE NaN)
    ELSE IF x[1] = 0 THEN NInf
    ELSE IF x[1] < 0 THEN NaN
    ELSE LnSplit[x[1], x[2],
                 IF x[1] >= 80000000 THEN 3 ELSE IF x[1] >= 40000000 THEN 2
                 ELSE IF x[1] >= 20000000 THEN 1 ELSE 0]

\* pow(x, y) of <math.h>, for the non-integer exponents the program uses
FPow[x \in Dbl, y \in Dbl] ==
    IF IsNaN(x) \/ IsNaN(y) THEN NaN
    ELSE IF ~IsInf(x) /\ x[1] = 0
    THEN (IF y[1] > 0 THEN Zero ELSE IF y[1] < 0 THEN PInf ELSE One)
    ELSE IF x[1] < 0 THEN NaN
    ELSE FExp[FMul[y, FLn[x]]]

\* sqrt(x) of <math.h>
FSqrt[x \in Dbl] ==
    IF IsNaN(x) THEN NaN
    ELSE IF x[1] = 0 THEN Zero
    ELSE IF x[1] < 0 THEN NaN
    ELSE FExp[FMul[Half, FLn[x]]]

---------------------------------------------------------------------------
(* Constants of CalcBlowingSnow.c and of the headers it includes.          *)

MAX_ITER == 100
K        == 5
NUMINCS  == 10
MACHEPS  == Lit(1, -6)
SETTLING == Lit(3, -1)
CSALT    == Lit(68, -2)
UTHRESH  == Lit(25, -2)
KIN_VIS  == Lit(13, -6)
Ka       == Lit(245187, -7)
\* the compile-time switches
SPATIAL_WIND  == TRUE
VAR_THRESHOLD == TRUE
FETCH         == TRUE
CALC_PROB     == TRUE
\* vicNl_def.h and mtclim42_vic.h
von_K       == Lit(4, -1)
G_STD       == Lit(980665, -5)
PI          == Lit(31415927, -7)
KELVIN      == Lit(27315, -2)
MW          == Lit(180148, -7)
R           == Lit(83143, -4)
ice_density == Lit(917, 0)

---------------------------------------------------------------------------
(* The root solver: get_shear and rtnewt.                                  *)

\* get_shear, from ex = exp(von_K*Ur/x), c = 2.*G_STD*Zr and xx = .12*x*x
ShearValues[x \in Dbl, ex \in Dbl, c \in Dbl, xx \in Dbl] ==
    [f  |-> FSub[ex, FDiv[c, xx]],
     df |-> FAdd[FDiv[FMul[Lit(-1, 0), ex], FMul[x, x]],
                 FDiv[FMul[Two, c], FMul[xx, x]]]]

\* get_shear: the shear-stress equation f and the derivative df the code
\* computes for it, at x
get_shear[x \in Dbl, Ur \in Dbl, Zr \in Dbl] ==
    ShearValues[x, FExp[FDiv[FMul[von_K, Ur], x]], FMul[FMul[Two, G_STD], Zr],
                FMul[FMul[Lit(12, -2), x], x]]

\* a variant of NotBracketed that knows only the case of two negative values
NotBracketedBelow(fl, fh) == FLt[fl, Zero] /\ FLt[fh, Zero]

\* rtnewt's test of the endpoint values: the root is not bracketed
NotBracketed(fl, fh) ==
    (FGt[fl, Zero] /\ FGt[fh, Zero]) \/ (FLt[fl, Zero] /\ FLt[fh, Zero])

\* the variables of a call of rtnewt.  pc: "exit" (exit() ended the
\* process), "done" (ret returned), "loop" (about to run pass j of the loop),
\* "exhausted" (the loop ended).  History: passes (passes of the loop begun),
\* step (the kind of the latest step), pxl, pxh, prts (xl, xh and rts before
\* the latest step), msg (the line printed)
RtCall(x1, x2, acc, Ur, Zr, fl, fh) ==
    [pc |-> "call", x1 |-> x1, x2 |-> x2, acc |-> acc, Ur |-> Ur, Zr |-> Zr,
     fl |-> fl, fh |-> fh, xl |-> Zero, xh |-> Zero, rts |-> Zero,
     dxold |-> Zero, dx |-> Zero, f |-> Zero, df |-> Zero, j |-> 1,
     ret |-> Zero, passes |-> 0, step |-> "none", pxl |-> Zero, pxh |-> Zero,
     prts |-> Zero, msg |-> "none"]

\* rtnewt from the orientation of the bracket to the head of its loop
RtFirst(r, g) ==
    [r EXCEPT !.pc = "loop",
              !.xl = IF FLt[r.fl, Zero] THEN r.x1 ELSE r.x2,
              !.xh = IF FLt[r.fl, Zero] THEN r.x2 ELSE r.x1,
              !.rts = FMul[Half, FAdd[r.x1, r.x2]],
              !.dxold = FAbs[FSub[r.x2, r.x1]], !.dx = FAbs[FSub[r.x2, r.x1]],
              !.f = g.f, !.df = g.df, !.j = 1]

\* rtnewt after the two evaluations at the endpoints
RtEnter(r) ==
    IF NotBracketed(r.fl, r.fh)
    THEN [r EXCEPT !.pc = "exit", !.msg = "Root must be bracketed in rtnewt."]
    ELSE IF FEq[r.fl, Zero] THEN [r EXCEPT !.pc = "done", !.ret = r.x1]
    ELSE IF FEq[r.fh, Zero] THEN [r EXCEPT !.pc = "done", !.ret = r.x2]
    ELSE RtFirst(r, get_shear[FMul[Half, FAdd[r.x1, r.x2]], r.Ur, r.Zr])

\* rtnewt up to its loop
RtStart(x1, x2, acc, Ur, Zr) ==
    RtEnter(RtCall(x1, x2, acc, Ur, Zr, get_shear[x1, Ur, Zr].f,
                   get_shear[x2, Ur, Zr].f))

\* the test of rtnewt's loop: TRUE for a bisection step, FALSE for a Newton step
RtBisects(r) ==
    \/ FGt[FMul[FSub[FMul[FSub[r.rts, r.xh], r.df], r.f],
                FSub[FMul[FSub[r.rts, r.x1], r.df], r.f]], Zero]
    \/ FGt[FAbs[FMul[Two, r.f]], FAbs[FMul[r.dxold, r.df]]]

\* the end of a pass that did not return: r is the record after the step, g
\* the values of get_shear at the new rts
RtAdvance(r, g) ==
    [r EXCEPT !.f = g.f, !.df = g.df,
              !.xl = IF FLt[g.f, Zero] THEN r.rts ELSE r.xl,
              !.xh = IF FLt[g.f, Zero] THEN r.xh ELSE r.rts,
              !.j = r.j + 1,
              !.pc = IF r.j + 1 <= MAX_ITER THEN "loop" ELSE "exhausted"]

\* the record after the step
RtStepped(r, step, dx, rts) ==
    [r EXCEPT !.passes = r.passes + 1, !.step = step, !.pxl = r.xl,
              !.pxh = r.xh, !.prts = r.rts, !.dxold = r.dx, !.dx = dx,
              !.rts = rts]

\* a pass of the loop that makes the step dx from old to rts
RtMove(r, step, dx, old, rts) ==
    IF FEq[old, rts] \/ FLt[FAbs[dx], r.acc]
    THEN [RtStepped(r, step, dx, rts) EXCEPT !.pc = "done", !.ret = rts]
    ELSE RtAdvance(RtStepped(r, step, dx, rts), get_shear[rts, r.Ur, r.Zr])

\* one pass of rtnewt's loop, from a record with pc = "loop"
\* (a bisection pass: dx=0.5*(xh-xl); rts=xl+dx;  a Newton pass: dx=f/df;
\* temp=rts; rts -= dx;)
RtIter(r) ==
    IF RtBisects(r)
    THEN RtMove(r, "bisect", FMul[Half, FSub[r.xh, r.xl]], r.xl,
                FAdd[r.xl, FMul[Half, FSub[r.xh, r.xl]]])
    ELSE RtMove(r, "newton", FDiv[r.f, r.df], r.rts,
                FSub[r.rts, FDiv[r.f, r.df]])

---------------------------------------------------------------------------
(* The profile model and the integrator: sub_with_height, trapzd, polint   *)
(* and qromb.                                                              *)

\* the arguments CalcSubFlux hands to sub_with_height, directly and through
\* qromb and trapzd
SubArgs ==
    [es : Dbl, Wind : Dbl, AirDens : Dbl, ZO : Dbl, EactAir : Dbl, F : Dbl,
     hsalt : Dbl, phi_r : Dbl, ushear : Dbl, Zrh : Dbl]

\* Rrz = 4.6e-5 * pow(z, -.258)
SubRrz[z \in Dbl] == FMul[Lit(46, -6), FPow[z, Lit(-258, -3)]]

\* ALPHAz = 4.08 + 12.6 * z
SubALPHAz[z \in Dbl] == FAdd[Lit(408, -2), FMul[Lit(126, -1), z]]

\* Mz, the mean particle mass
SubMz[Rrz \in Dbl, ALPHAz \in Dbl] ==
    FMul[FMul[FMul[FMul[FMul[FMul[FDiv[Lit(4, 0), Lit(3, 0)], PI],
                             ice_density], Rrz], Rrz], Rrz],
         FAdd[FAdd[One, FDiv[Lit(3, 0), ALPHAz]],
              FDiv[Two, FMul[ALPHAz, ALPHAz]]]]

\* Rmean, the mean particle radius
SubRmean[Mz \in Dbl] ==
    FPow[FDiv[FMul[Lit(3, 0), Mz], FMul[FMul[Lit(4, 0), PI], ice_density]],
         FDiv[One, Lit(3, 0)]]

\* Vtz = terminal_v + 3.*fluctuat_v*cos(PI/4.), the ventilation velocity;
\* cos(PI/4.) is 0.70710678
SubVtz[Rmean \in Dbl, Wind \in Dbl] ==
    FAdd[FMul[Lit(11, 6), FPow[Rmean, Lit(18, -1)]],
         FMul[FMul[Lit(3, 0), FMul[Lit(5, -3), FPow[Wind, Lit(136, -2)]]],
              Lit(70710678, -8)]]

\* Nu = 1.79 + 0.606 * pow(Re, 0.5) with Re = 2. * Rmean * Vtz / KIN_VIS
SubNu[Rmean \in Dbl, Vtz \in Dbl] ==
    FAdd[Lit(179, -2),
         FMul[Lit(606, -3),
              FPow[FDiv[FMul[FMul[Two, Rmean], Vtz], KIN_VIS], Half]]]

\* sigz = ((EactAir/es) - 1.) * (1 - .027*log(z / Zrh))
SubSigz[z \in Dbl, a \in SubArgs] ==
    FMul[FSub[FDiv[a.EactAir, a.es], One],
         FSub[One, FMul[Lit(27, -3), FLn[FDiv[z, a.Zrh]]]]]

\* psi_t = dMdt/Mz with dMdt = 2 * PI * Rmean * sigz * Nu / F: the
\* sublimation loss rate coefficient
SubPsi[z \in Dbl, a \in SubArgs, Mz \in Dbl, Rmean \in Dbl] ==
    FDiv[FDiv[FMul[FMul[FMul[FMul[Two, PI], Rmean], SubSigz[z, a]],
                   SubNu[Rmean, SubVtz[Rmean, a.Wind]]], a.F], Mz]

\* phi_t, from temp = (0.5*ushear*ushear)/(Wind*SETTLING)
SubPhi[z \in Dbl, a \in SubArgs, temp \in Dbl] ==
    FMul[a.phi_r,
         FSub[FMul[FAdd[temp, One],
                   FPow[FDiv[z, a.hsalt],
                        FDiv[FMul[Lit(-1, 0), SETTLING],
                             FMul[von_K, a.ushear]]]],
              temp]]

\* sub_with_height after Mz and Rmean: psi_t if(flag==1), else psi_t * phi_t
SubRate[z \in Dbl, a \in SubArgs, flag \in Int, Mz \in Dbl, Rmean \in Dbl] ==
    IF flag = 1 THEN SubPsi[z, a, Mz, Rmean]
    ELSE FMul[SubPsi[z, a, Mz, Rmean],
              SubPhi[z, a, FDiv[FMul[FMul[Half, a.ushear], a.ushear],
                                FMul[a.Wind, SETTLING]]]]

\* sub_with_height after Mz
SubMass[z \in Dbl, a \in SubArgs, flag \in Int, Mz \in Dbl] ==
    SubRate[z, a, flag, Mz, SubRmean[Mz]]

\* sub_with_height: the sublimation rate at height z; a is the record of the
\* other arguments (es, Wind, AirDens, ZO, EactAir, F, hsalt, phi_r, ushear,
\* Zrh).  flag = 1 gives psi_t, any other flag psi_t * phi_t
sub_with_height[z \in Dbl, a \in SubArgs, flag \in Int] ==
    SubMass[z, a, flag, SubMz[SubRrz[z], SubALPHAz[z]]]

INT_MIN == -2147483647 - 1

\* for (it=1, j=1; j<n-1; j++) it <<= 1; on a C int, the shifts taken one by
\* one: 2^(n-2) while it fits; the 31st shift moves the bit into the sign
\* (INT_MIN) and the 32nd shifts it out (0).  Shifts from the 31st on
\* overflow the int, which is undefined: ovf
ShiftLoop(n) ==
    IF n - 2 <= 0 THEN [it |-> 1, ovf |-> FALSE]
    ELSE IF n - 2 <= 30 THEN [it |-> 2 ^ (n - 2), ovf |-> FALSE]
    ELSE IF n - 2 = 31 THEN [it |-> INT_MIN, ovf |-> TRUE]
    ELSE [it |-> 0, ovf |-> TRUE]

\* the point counts a build can produce for refinement n: the loop's shifts
\* taken one by one, or (the loop turned into one shift) 1 << ((n-2) % 32)
PointCounts(n) ==
    IF n - 2 <= 30 THEN {ShiftLoop(n)}
    ELSE {ShiftLoop(n),
          [it  |-> IF (n - 2) % 32 = 31 THEN INT_MIN ELSE 2 ^ ((n - 2) % 32),
           ovf |-> TRUE]}

\* tnm=it: a C int as a double
IntToDouble(n) == IF n = INT_MIN THEN Lit(-21474836, 2) ELSE Lit(n, 0)

---------------------------------------------------------------------------
(* The integrator: polint, trapzd and qromb.                               *)

\* polint's work arrays c and d, with the flag err
\* polint's work arrays c and d with err (nrerror was called).  History: used,
\* the indices at which c and d were read or written; seen, the indices at
\* which xa and ya were read
PolintWork == [c : Seq(Dbl), d : Seq(Dbl), err : BOOLEAN, used : SUBSET Int, seen : SUBSET Int]

\* polint's new c[i] and d[i] from ho, hp, den0 = ho-hp and den = w/den0;
\* err: nrerror("Error in routine polint") was called
PolintPut[cd \in PolintWork, i \in Int, ho, hp, den0, den \in Dbl] ==
    [c   |-> [cd.c EXCEPT ![i] = FMul[ho, den]],
     d   |-> [cd.d EXCEPT ![i] = FMul[hp, den]],
     err |-> cd.err \/ FEq[den0, Zero],
     used |-> cd.used \cup {i, i + 1}, seen |-> cd.seen]

\* one pass of polint's inner loop, from ho = xa[i]-x and hp = xa[i+m]-x:
\* w=c[i+1]-d[i], den = w/den0 and the new c[i], d[i]
PolintCell[cd \in PolintWork, i \in Int, ho, hp, den0 \in Dbl] ==
    PolintPut[cd, i, ho, hp, den0, FDiv[FSub[cd.c[i + 1], cd.d[i]], den0]]

\* polint's inner loop, for(i=1; i<=n-m; i++), on the work arrays cd = [c, d, err]
PolintInner[i, m, n \in Int, xa \in Seq(Dbl), x \in Dbl, cd \in PolintWork] ==
    IF i > n - m THEN cd
    ELSE PolintInner[i + 1, m, n, xa, x,
                     PolintCell[[cd EXCEPT !.seen = @ \cup {i, i + m}], i,
                                FSub[xa[i], x], FSub[xa[i + m], x],
                                FSub[FSub[xa[i], x], FSub[xa[i + m], x]]]]

\* polint's outer loop, for(m=1; m<n; m++), from pass m after its inner loop
\* (cd holds the arrays that loop left; dy is the latest correction):
\* *y += (*dy=(2*ns < (n-m) ? c[ns+1] : d[ns--])) and the next pass with its
\* inner loop
PolintOuter[m, n \in Int, xa \in Seq(Dbl), x \in Dbl, cd \in PolintWork, ns \in Int, y, dy \in Dbl] ==
    IF m >= n
    THEN [y |-> y, dy |-> dy, err |-> cd.err, used |-> cd.used, seen |-> cd.seen]
    ELSE IF 2 * ns < n - m
    THEN PolintOuter[m + 1, n, xa, x,
                     PolintInner[1, m + 1, n, xa, x,
                                 [cd EXCEPT !.used = @ \cup {ns + 1}]],
                     ns, FAdd[y, cd.c[ns + 1]], cd.c[ns + 1]]
    ELSE PolintOuter[m + 1, n, xa, x,
                     PolintInner[1, m + 1, n, xa, x,
                                 [cd EXCEPT !.used = @ \cup {ns}]],
                     ns - 1, FAdd[y, cd.d[ns]], cd.d[ns]]

\* polint's first loop: the index ns of the abscissa nearest to x
PolintNearest[i, n \in Int, xa \in Seq(Dbl), x \in Dbl, ns \in Int, dif \in Dbl] ==
    IF i > n THEN ns
    ELSE IF FLt[FAbs[FSub[x, xa[i]]], dif]
    THEN PolintNearest[i + 1, n, xa, x, i, FAbs[FSub[x, xa[i]]]]
    ELSE PolintNearest[i + 1, n, xa, x, ns, dif]

\* polint after its first loop gave ns: the loop read xa[i], ya[i] and wrote
\* c[i]=ya[i]; d[i]=ya[i]; for i = 1..n
PolintFrom[xa, ya \in Seq(Dbl), n \in Int, x \in Dbl, ns \in Int] ==
    PolintOuter[1, n, xa, x,
                PolintInner[1, 1, n, xa, x,
                            [c |-> ya, d |-> ya, err |-> FALSE, used |-> 1..n,
                             seen |-> 1..n]],
                ns - 1, ya[ns], Zero]

\* polint(xa, ya, n, x, &y, &dy): xa and ya are the n elements xa[1..n],
\* ya[1..n] the code reads; err when it calls nrerror("Error in routine polint")
polint[xa \in Seq(Dbl), ya \in Seq(Dbl), n \in Int, x \in Dbl] ==
    PolintFrom[xa, ya, n, x,
               PolintNearest[1, n, xa, x, 1, FAbs[FSub[x, xa[1]]]]]

\* the outcomes of polint's use of the heap: c and d are n doubles each and
\* are indexed 1..n, so c[n] and d[n] lie beyond the allocation.  The build
\* either has room behind the blocks ("ok") or the allocator finds its
\* bookkeeping overwritten and aborts the process ("abort")
HeapOutcomes == {"ok", "abort"}

\* qromb on entry: h[1] = 1.0, j = 1.  pc: "loop" (about to call trapzd for
\* refinement j), "sum" (in trapzd, about to test whether a value of the
\* integrand is left to add), "toomany" (the for loop ended), "done" (ret
\* returned), "exit" (nrerror ended the process), "killed" (the allocator
\* aborted the process).  it, ovf: trapzd's point count and whether computing
\* it overflowed; todo, k: the values of the integrand trapzd adds and the
\* index of the next one.  History: read (the value of the static s the
\* latest trapzd read), own (the value this call stored there last), size
\* (the elements of each of polint's latest allocations), used (the indices
\* at which polint read or wrote c and d in its latest call), seen (the
\* indices of h and s polint read through xa and ya in its latest call)
QrombStart(a, b, args) ==
    [pc |-> "loop", a |-> a, b |-> b, args |-> args, j |-> 1,
     s |-> << >>, h |-> <<One>>, ss |-> Zero, dss |-> Zero, ret |-> Zero,
     it |-> 0, ovf |-> FALSE, tnm |-> Zero, del |-> Zero, x |-> Zero,
     sum |-> Zero, todo |-> 0, k |-> 1, read |-> Zero, own |-> Zero,
     msg |-> "none", size |-> 0, used |-> {}, seen |-> {}]

\* the qromb record while no integration runs
QrombIdle == [QrombStart(Zero, Zero, [none |-> Zero]) EXCEPT !.pc = "idle"]

\* trapzd for n > 1 up to its summation loop, from the point count cnt and
\* del = (b-a)/tnm
TrapzdSetup(q, cnt, del) ==
    [q EXCEPT !.pc = "sum", !.it = cnt.it, !.ovf = q.ovf \/ cnt.ovf,
              !.tnm = IntToDouble(cnt.it), !.del = del,
              !.x = FAdd[q.a, FMul[Half, del]], !.sum = Zero,
              !.todo = IF cnt.it > 0 THEN cnt.it ELSE 0, !.k = 1]

\* trapzd up to the first value of the integrand, for refinement q.j with
\* the point count cnt (one of PointCounts(q.j)).  For n = 1 the values are
\* the two at the ends a and b
TrapzdBegin(q, cnt) ==
    IF q.j = 1
    THEN [q EXCEPT !.pc = "sum", !.it = 0, !.todo = 2, !.k = 1, !.x = q.a,
                   !.sum = Zero]
    ELSE TrapzdSetup(q, cnt, FDiv[FSub[q.b, q.a], IntToDouble(cnt.it)])

\* trapzd after sum became the new sum.  A sum that has become NaN stays NaN
\* whatever is added to it: the values that remain are taken as added
TrapzdAdded(q, sum) ==
    [q EXCEPT !.sum = sum,
              !.x = IF q.j = 1 THEN q.b ELSE FAdd[q.x, q.del],
              !.k = IF IsNaN(sum) THEN q.todo + 1 ELSE q.k + 1]

\* the value trapzd stores in its static s and returns; st is the static on
\* entry
TrapzdValue(q, st) ==
    IF q.j = 1 THEN FMul[FMul[Half, FSub[q.b, q.a]], q.sum]
    ELSE FMul[Half, FAdd[st, FDiv[FMul[FSub[q.b, q.a], q.sum], q.tnm]]]

\* s[j]=trapzd(...): trapzd returned sj after it read st in its static
QrombStored(q, st, sj) ==
    [q EXCEPT !.s = Append(q.s, sj),
              !.read = IF q.j = 1 THEN sj ELSE st,
              !.own = IF q.j = 1 THEN sj ELSE q.s[q.j - 1]]

\* h[j+1]=0.25*h[j]; and j++ with the test of the for loop
QrombNext(q) ==
    [q EXCEPT !.h = Append(q.h, FMul[Lit(25, -2), q.h[q.j]]), !.j = q.j + 1,
              !.pc = IF q.j + 1 <= MAX_ITER THEN "loop" ELSE "toomany"]

\* qromb after polint gave pl, with the outcome heap of polint's use of the
\* heap
QrombChecked(q, heap, pl) ==
    IF pl.err
    THEN [q EXCEPT !.pc = "exit", !.msg = "Error in routine polint"]
    ELSE IF heap = "abort"
    THEN [q EXCEPT !.pc = "killed", !.msg = "abort"]
    ELSE IF FLe[FAbs[pl.dy], FMul[MACHEPS, FAbs[pl.y]]]
    THEN [q EXCEPT !.ss = pl.y, !.dss = pl.dy, !.pc = "done", !.ret = pl.y]
    ELSE QrombNext([q EXCEPT !.ss = pl.y, !.dss = pl.dy])

\* the record of the accesses of the call polint(&h[j-K],&s[j-K],K,...) that
\* gave pl: c and d are K doubles each; xa[i] is h[j-K+i], ya[i] is s[j-K+i]
QrombTouched(q, pl) ==
    [q EXCEPT !.size = K, !.used = pl.used,
              !.seen = {q.j - K + i : i \in pl.seen}]

\* the pass of qromb's loop after trapzd: polint(&h[j-K],&s[j-K],K,0.0,&ss,&dss)
\* from j = K on, and the test of convergence
QrombTest(q, heap) ==
    IF q.j >= K
    THEN QrombChecked(QrombTouched(q, polint[SubSeq(q.h, q.j - K + 1, q.j),
                                             SubSeq(q.s, q.j - K + 1, q.j),
                                             K, Zero]),
                      heap,
                      polint[SubSeq(q.h, q.j - K + 1, q.j),
                             SubSeq(q.s, q.j - K + 1, q.j), K, Zero])
    ELSE QrombNext(q)

---------------------------------------------------------------------------
(* The flux assembler: get_prob, get_thresh, shear_stress, CalcSubFlux.    *)

\* 1./(1.+exp(sqrt(PI)*(mean_u_occurence-U10)/sigma_occurence))
Occurence(mean_u_occurence, sigma_occurence, U10) ==
    FDiv[One, FAdd[One, FExp[FDiv[FMul[FSqrt[PI], FSub[mean_u_occurence, U10]],
                                  sigma_occurence]]]]

\* get_prob: the probability of blowing snow at the wind speed U10
get_prob(Tair, Age, SurfaceLiquidWater, U10) ==
    IF ~CALC_PROB THEN One
    ELSE IF FLt[SurfaceLiquidWater, Lit(1, -3)]
    THEN (IF FGt[U10, Lit(3, 0)]
          THEN Occurence(FAdd[FAdd[FAdd[Lit(112, -1), FMul[Lit(365, -3), Tair]],
                                   FMul[FMul[Lit(706, -5), Tair], Tair]],
                              FMul[Lit(9, -1), FLn[Age]]],
                         FAdd[FAdd[Lit(43, -1), FMul[Lit(145, -3), Tair]],
                              FMul[FMul[Lit(196, -5), Tair], Tair]],
                         U10)
          ELSE Zero)
    ELSE (IF FGt[U10, Lit(7, 0)]
          THEN Occurence(Lit(21, 0), Lit(7, 0), U10)
          ELSE Zero)

\* get_thresh for the variable threshold, from utshear = von_K * ut10 /
\* log(10./Zo_salt)
ThreshPick(U10, Zo_salt, prob_occurence, ushear, utshear) ==
    IF FLt[ushear, utshear] /\ FGt[prob_occurence, Lit(1, -3)]
    THEN FDiv[FMul[von_K, FSub[U10, Half]], FLn[FDiv[Lit(10, 0), Zo_salt]]]
    ELSE utshear

\* get_thresh: the threshold shear velocity, from the threshold wind speed
\* ut10
get_thresh(Tair, SurfaceLiquidWater, U10, Zo_salt, prob_occurence, flag, ushear) ==
    IF flag
    THEN ThreshPick(U10, Zo_salt, prob_occurence, ushear,
                    FDiv[FMul[von_K,
                              IF FLt[SurfaceLiquidWater, Lit(1, -3)]
                              THEN FAdd[FAdd[Lit(943, -2), FMul[Lit(18, -2), Tair]],
                                        FMul[FMul[Lit(33, -4), Tair], Tair]]
                              ELSE Lit(99, -1)],
                         FLn[FDiv[Lit(10, 0), Zo_salt]]])
    ELSE UTHRESH

\* shear_stress up to its call of rtnewt: temp
ShearTemp(U10, ZO) == FDiv[FMul[von_K, U10], FLn[FDiv[Lit(10, 0), ZO]]]

\* the call rtnewt(.0000001, temp+5, .000001, U10, 10.) of shear_stress
ShearCall(U10, ZO) ==
    RtStart(Lit(1, -7), FAdd[ShearTemp(U10, ZO), Lit(5, 0)], Lit(1, -6), U10,
            Lit(10, 0))

\* if(*Zo_salt < ZO) { *Zo_salt = ZO; *ushear = temp; }
ShearPick(root, U10, ZO, Zo_salt) ==
    IF FLt[Zo_salt, ZO]
    THEN [ushear |-> ShearTemp(U10, ZO), Zo_salt |-> ZO]
    ELSE [ushear |-> root, Zo_salt |-> Zo_salt]

\* shear_stress after rtnewt returned root: ushear and Zo_salt
ShearRest(root, U10, ZO) ==
    ShearPick(root, U10, ZO,
              FDiv[FMul[FMul[Lit(12, -2), root], root], FMul[Two, G_STD]])

\* a variant of Transports without the test of the vapor pressure
TransportsAnyAir(ushear, utshear, EactAir, es) == FGt[ushear, utshear]

\* if(ushear > utshear && EactAir < es): the flux is computed
Transports(ushear, utshear, EactAir, es) ==
    FGt[ushear, utshear] /\ FLt[EactAir, es]

\* Qsalt of CalcSubFlux: the maximum saltation transport rate
SaltTransport(AirDens, utshear, ushear, fe) ==
    IF FETCH
    THEN FMul[FMul[FMul[FDiv[FMul[CSALT, AirDens], G_STD], FDiv[utshear, ushear]],
                   FSub[FMul[ushear, ushear], FMul[utshear, utshear]]],
              FAdd[One, FMul[FDiv[Lit(500, 0), FMul[Lit(3, 0), fe]],
                             FSub[FExp[FDiv[FMul[Lit(-3, 0), fe], Lit(500, 0)]],
                                  One]]]]
    ELSE FMul[FMul[FDiv[FMul[CSALT, AirDens], G_STD], FDiv[utshear, ushear]],
              FSub[FMul[ushear, ushear], FMul[utshear, utshear]]]

\* ztop of CalcSubFlux, from T = 0.5*(ushear*ushear)/(U10*SETTLING)
SuspensionTop(hsalt, ushear, T) ==
    FMul[hsalt, FPow[FDiv[T, FAdd[T, One]],
                     FDiv[FMul[von_K, ushear], FMul[Lit(-1, 0), SETTLING]]]]

\* CalcSubFlux from the arguments a it hands to sub_with_height and qromb
SubFluxOf[a \in SubArgs] ==
    [SubFlux |-> FMul[FMul[a.phi_r, sub_with_height[FDiv[a.hsalt, Two], a, 1]],
                      a.hsalt],
     q       |-> QrombStart(a.hsalt,
                            SuspensionTop(a.hsalt, a.ushear,
                                          FDiv[FMul[Half, FMul[a.ushear, a.ushear]],
                                               FMul[a.Wind, SETTLING]]),
                            a)]

\* CalcSubFlux from hsalt on; particle is utshear*2.8
SubFluxFrom[EactAir, es, Zrh, AirDens, utshear, ushear, fe, U10, Zo_salt, F, hsalt \in Dbl] ==
    SubFluxOf[[es |-> es, Wind |-> U10, AirDens |-> AirDens,
               ZO |-> Zo_salt, EactAir |-> EactAir, F |-> F,
               hsalt |-> hsalt,
               phi_r |-> FDiv[SaltTransport(AirDens, utshear, ushear, fe),
                              FMul[hsalt, FMul[utshear, Lit(28, -1)]]],
               ushear |-> ushear, Zrh |-> Zrh]]

\* CalcSubFlux up to its call of qromb: the flux of the saltation layer
\* (SubFlux) and the integration it starts for the suspension layer (q).
\* SIMPLE is 0: the flux is that of Liston and Sturm
SubFluxStart(EactAir, es, Zrh, AirDens, utshear, ushear, fe, U10, Zo_salt, F) ==
    SubFluxFrom[EactAir, es, Zrh, AirDens, utshear, ushear, fe, U10, Zo_salt, F,
                FDiv[FMul[FMul[Lit(16, -1), ushear], ushear], FMul[Two, G_STD]]]

---------------------------------------------------------------------------
(* The driver CalcBlowingSnow.                                             *)

\* a double stored in a float (fe, sigma_slope): the seven digits a float holds
ToFloat(x) ==
    IF x[2] = SPECIAL \/ x[1] = 0 THEN x
    ELSE Norm[TDiv(x[1] + 5 * ISgn(x[1]), 10), x[2] + 1]

\* F: the denominator of dm/dt, from Tk = Tair + KELVIN
GeneralF(in, Tk) ==
    FAdd[FMul[FDiv[in.Ls, FMul[Ka, Tk]],
              FSub[FDiv[FMul[in.Ls, MW], FMul[R, Tk]], One]],
         FDiv[One, FMul[FMul[Lit(206, -7),
                             FPow[FDiv[Tk, Lit(273, 0)], Lit(175, -2)]],
                        FDiv[FMul[Lit(622, -3), in.es],
                             FMul[Lit(287, 0), Tk]]]]]

\* wind10 = Wind*log(10./ZO[2])/log((2+ZO[2])/ZO[2])
GeneralWind(in) ==
    FDiv[FMul[in.Wind, FLn[FDiv[Lit(10, 0), in.ZO]]],
         FLn[FDiv[FAdd[Two, in.ZO], in.ZO]]]

\* ratio = (2.4 - (0.4/0.9)*lag_one)*sigma_slope, sigma_slope that of bare
\* soil if(iveg == Nveg)
GeneralRatio(in) ==
    FMul[FSub[Lit(24, -1), FMul[FDiv[Lit(4, -1), Lit(9, -1)], in.lag_one]],
         IF in.iveg = in.Nveg THEN ToFloat(Lit(2, -4)) ELSE in.sigma_slope]

\* the general variables from F, wind10 and sigma_w = wind10*ratio.
\* sigmsg: the "sigma problem" lines were printed
GeneralOf(in, F, wind10, sigma_w) ==
    [Age |-> FMul[IntToDouble(in.LastSnow), in.Dt], F |-> F, wind10 |-> wind10,
     fe |-> IF in.iveg = in.Nveg THEN ToFloat(Lit(1500, 0)) ELSE in.fe,
     sigma_w |-> IF FGt[sigma_w, Lit(10, 0)] \/ FLt[sigma_w, Lit(-10, 0)]
                 THEN Lit(22, -2) ELSE sigma_w,
     sigmsg |-> FGt[sigma_w, Lit(10, 0)] \/ FLt[sigma_w, Lit(-10, 0)],
     Uo |-> wind10,
     hv |-> FMul[FDiv[Lit(3, 0), Two], in.displacement],
     Nd |-> FMul[FDiv[Lit(4, 0), Lit(3, 0)],
                 FDiv[in.roughness, in.displacement]],
     area |-> FDiv[One, IntToDouble(NUMINCS)]]

\* the variables that do not depend on the wind interval.  in is the record
\* of the arguments; in.es is the value svp(Tair) returned, in.ZO is ZO[2]
General(in) ==
    GeneralOf(in, GeneralF(in, FAdd[in.Tair, KELVIN]), GeneralWind(in),
              FMul[GeneralWind(in), GeneralRatio(in)])

\* a variant of SnowPresent that also takes a depth of 0 for snow
SnowPresentOrZero(snowdepth) == FGe[snowdepth, Zero]

\* if(snowdepth > 0.0)
SnowPresent(snowdepth) == FGt[snowdepth, Zero]

\* sigma_w*log(v)
SigmaLog(sigma_w, v) == FMul[sigma_w, FLn[v]]

\* the limits of integration of interval p, before they are clamped
RawLimits(p, Uo, sigma_w, area) ==
    IF p = 0
    THEN [lower |-> Zero,
          upper |-> FAdd[Uo, SigmaLog(sigma_w,
                             FMul[FMul[Two, IntToDouble(p + 1)], area])]]
    ELSE IF p > 0 /\ p < NUMINCS \div 2
    THEN [lower |-> FAdd[Uo, SigmaLog(sigma_w,
                             FMul[FMul[Two, IntToDouble(p)], area])],
          upper |-> FAdd[Uo, SigmaLog(sigma_w,
                             FMul[FMul[Two, IntToDouble(p + 1)], area])]]
    ELSE IF p < NUMINCS - 1 /\ p >= NUMINCS \div 2
    THEN [lower |-> FSub[Uo, SigmaLog(sigma_w,
                             FSub[Two, FMul[Two, FMul[IntToDouble(p), area]]])],
          upper |-> FSub[Uo, SigmaLog(sigma_w,
                             FSub[Two, FMul[Two, FMul[FAdd[IntToDouble(p), One],
                                                      area]]])]]
    ELSE IF p = NUMINCS - 1
    THEN [lower |-> FSub[Uo, SigmaLog(sigma_w,
                             FSub[Two, FMul[Two, FMul[IntToDouble(p), area]]])],
          upper |-> FMul[Uo, Two]]
    ELSE [lower |-> Zero, upper |-> Zero]

\* if(lower < 0.) lower = 0.;  if(upper < 0) upper = 0.;
NonNegative(v) == IF FLt[v, Zero] THEN Zero ELSE v

\* if(lower > upper) lower = upper;
Ordered(lower, upper) ==
    [lower |-> IF FGt[lower, upper] THEN upper ELSE lower, upper |-> upper]

\* the limits of integration of interval p
Limits(p, Uo, sigma_w, area) ==
    Ordered(NonNegative(RawLimits(p, Uo, sigma_w, area).lower),
            NonNegative(RawLimits(p, Uo, sigma_w, area).upper))

\* (v+s)*exp(c*(v - Uo)), a term of the expected wind speed
ExpectedTerm(v, s, c, Uo) == FMul[FAdd[v, s], FExp[FMul[c, FSub[v, Uo]]]]

\* the expected wind speed of the interval [lower, upper]; ranges: the
\* "Problem with probability ranges" lines were printed
Expected(lower, upper, Uo, sigma_w, area) ==
    IF FGe[lower, Uo]
    THEN [U10 |-> FDiv[FMul[Lit(-5, -1),
                            FSub[ExpectedTerm(upper, sigma_w,
                                              FDiv[Lit(-1, 0), sigma_w], Uo),
                                 ExpectedTerm(lower, sigma_w,
                                              FDiv[Lit(-1, 0), sigma_w], Uo)]],
                       area],
          ranges |-> FALSE]
    ELSE IF FLe[upper, Uo]
    THEN [U10 |-> FDiv[FMul[Half,
                            FSub[ExpectedTerm(upper, FNeg[sigma_w],
                                              FDiv[One, sigma_w], Uo),
                                 ExpectedTerm(lower, FNeg[sigma_w],
                                              FDiv[One, sigma_w], Uo)]],
                       area],
          ranges |-> FALSE]
    ELSE [U10 |-> Lit(4, -1), ranges |-> TRUE]

\* if(U10 < 0.4) U10 = .4;  if(U10 > 25.) U10 = 25.;
ClampWind(U10) ==
    IF FLt[U10, Lit(4, -1)] THEN Lit(4, -1)
    ELSE IF FGt[U10, Lit(25, 0)] THEN Lit(25, 0) ELSE U10

\* the wind speed above the vegetation, from the wind speed U
VegWind(U, snowdepth, hv, Nd) ==
    IF FLt[snowdepth, hv]
    THEN FDiv[U, FSqrt[FAdd[One, FMul[FMul[Lit(680, 0), Nd],
                                      FSub[hv, snowdepth]]]]]
    ELSE U

\* a variant of ClampTotal that leaves every Total as it is
ClampTotalNone(Total) == Total

\* if(Total < -.00005) Total = -.00005;
ClampTotal(Total) == IF FLt[Total, Lit(-5, -5)] THEN Lit(-5, -5) ELSE Total

---------------------------------------------------------------------------
(* The program as a state machine.                                         *)

VARIABLES
    pc,        \* where CalcBlowingSnow is: "start", "loop" (at the head of
               \* the wind loop), "det" (at the head of the deterministic
               \* branch), "shear" (in rtnewt, called by shear_stress), "flux"
               \* (in qromb, called by CalcSubFlux), "final" (after the
               \* branches), "returned", "exit" (exit() or nrerror() ended
               \* the process), "killed" (the allocator aborted it);
               \* "rtnewt" while rtnewt alone is run, "conc" while two
               \* invocations run concurrently
    in,        \* the arguments of the call
    lv,        \* the local variables of CalcBlowingSnow
    rt,        \* the call of rtnewt in progress
    q,         \* the call of qromb in progress
    trapzd_s,  \* static double s of trapzd
    cq         \* the calls of qromb of the concurrent invocations

vars == <<pc, in, lv, rt, q, trapzd_s, cq>>

\* the rtnewt record while no root is sought
RtIdle ==
    [RtCall(Zero, Zero, Zero, Zero, Zero, Zero, Zero) EXCEPT !.pc = "idle"]

\* the locals on entry.  U: the wind speed of the evaluation in progress, the
\* one handed to shear_stress, get_thresh and CalcSubFlux.  History: uninit
\* (a variable was read before it was assigned), ranges ("Problem with
\* probability ranges" was printed), nrt and nq (the calls of rtnewt and of
\* qromb so far), evals (evaluations of the flux completed), asked
\* (CalcSubFlux was called in the latest evaluation), before (Total before
\* the latest evaluation)
LvInit ==
    [Age |-> Zero, F |-> Zero, wind10 |-> Zero, fe |-> Zero, sigma_w |-> Zero,
     sigmsg |-> FALSE, Uo |-> Zero, hv |-> Zero, Nd |-> Zero, area |-> Zero,
     Total |-> Zero, p |-> 0, lower |-> Zero, upper |-> Zero, U10 |-> Zero,
     Uveg |-> Zero, prob_occurence |-> Zero,
     ushear |-> Zero, Zo_salt |-> Zero, utshear |-> Zero, SubFlux |-> Zero,
     U |-> Zero, branch |-> "none", ret |-> Zero, uninit |-> FALSE,
     ranges |-> FALSE, nrt |-> 0, nq |-> 0, evals |-> 0, asked |-> FALSE,
     before |-> Zero]

\* the locals after the general variables g were computed and Total = 0.0
Entered(l, g) ==
    [l EXCEPT !.Age = g.Age, !.F = g.F, !.wind10 = g.wind10, !.fe = g.fe,
              !.sigma_w = g.sigma_w, !.sigmsg = g.sigmsg, !.Uo = g.Uo,
              !.hv = g.hv, !.Nd = g.Nd, !.area = g.area, !.Total = Zero]

\* CalcBlowingSnow from its entry to the test of snowdepth and of sigma_w
Enter ==
    /\ pc = "start"
    /\ \E g \in {General(in)} :
         IF ~SnowPresent(in.snowdepth)
         THEN pc' = "final" /\ lv' = Entered(lv, g)
         ELSE IF SPATIAL_WIND /\ FNe[g.sigma_w, Zero]
         THEN /\ pc' = "loop"
              /\ lv' = [Entered(lv, g) EXCEPT !.branch = "spatial", !.p = 0]
         ELSE /\ pc' = "det"
              /\ lv' = [Entered(lv, g) EXCEPT !.branch = "det"]
    /\ UNCHANGED <<in, rt, q, trapzd_s, cq>>

\* the locals at the call of shear_stress(U, ...), after U10, Uveg and
\* prob_occurence were assigned
Evaluating(l, U10, Uveg, prob_occurence, U) ==
    [l EXCEPT !.U10 = U10, !.Uveg = Uveg, !.prob_occurence = prob_occurence,
              !.U = U, !.nrt = l.nrt + 1, !.asked = FALSE, !.before = l.Total]

\* one pass of the wind loop up to the call of rtnewt in shear_stress
Interval ==
    /\ pc = "loop"
    /\ \E lim \in {Limits(lv.p, lv.Uo, lv.sigma_w, lv.area)} :
       \E ex \in {Expected(lim.lower, lim.upper, lv.Uo, lv.sigma_w, lv.area)} :
       \E U10 \in {ClampWind(ex.U10)} :
       \E Uveg \in {VegWind(U10, in.snowdepth, lv.hv, lv.Nd)} :
       \E r \in {ShearCall(U10, in.ZO)} :
         /\ lv' = Evaluating([lv EXCEPT !.SubFlux = Zero, !.lower = lim.lower,
                                        !.upper = lim.upper,
                                        !.ranges = lv.ranges \/ ex.ranges],
                             U10, Uveg,
                             get_prob(in.Tair, lv.Age, in.SurfaceLiquidWater,
                                      Uveg),
                             U10)
         /\ rt' = r
         /\ pc' = IF r.pc = "exit" THEN "exit" ELSE "shear"
    /\ UNCHANGED <<in, q, trapzd_s, cq>>

\* the values an uninitialized double can hold
Garbage == {Zero, Lit(30, 0), NaN}

\* the deterministic branch up to the call of rtnewt in shear_stress.  U10 is
\* read where nothing has assigned it: its value is any double
DetBranch ==
    /\ pc = "det"
    /\ \E U10 \in Garbage :
       \E Uveg \in {VegWind(U10, in.snowdepth, lv.hv, lv.Nd)} :
       \E r \in {ShearCall(lv.wind10, in.ZO)} :
         /\ lv' = Evaluating([lv EXCEPT !.Uo = lv.wind10, !.uninit = TRUE],
                             U10, Uveg,
                             get_prob(in.Tair, lv.Age, in.SurfaceLiquidWater,
                                      Uveg),
                             lv.wind10)
         /\ rt' = r
         /\ pc' = IF r.pc = "exit" THEN "exit" ELSE "shear"
    /\ UNCHANGED <<in, q, trapzd_s, cq>>

\* one pass of the loop of rtnewt
RtnewtStep ==
    /\ pc \in {"shear", "rtnewt"}
    /\ rt.pc = "loop"
    /\ rt' = RtIter(rt)
    /\ UNCHANGED <<pc, in, lv, q, trapzd_s, cq>>

\* rtnewt after MAX_ITER passes: the diagnostic, rts = .025; return rts;
RtnewtGiveUp ==
    /\ pc \in {"shear", "rtnewt"}
    /\ rt.pc = "exhausted"
    /\ rt' = [rt EXCEPT !.pc = "done", !.rts = Lit(25, -3),
                         !.ret = Lit(25, -3),
                         !.msg = "Maximum number of iterations exceeded in rtnewt."]
    /\ UNCHANGED <<pc, in, lv, q, trapzd_s, cq>>

\* Total after an evaluation gave SubFlux, and where the program goes next
Accumulate(l, SubFlux) ==
    IF l.branch = "spatial"
    THEN [pc |-> IF l.p + 1 < NUMINCS THEN "loop" ELSE "final",
          lv |-> [l EXCEPT !.SubFlux = SubFlux,
                           !.Total = FAdd[l.Total,
                                          FMul[FMul[FDiv[One, IntToDouble(NUMINCS)],
                                                    SubFlux],
                                               l.prob_occurence]],
                           !.p = l.p + 1, !.evals = l.evals + 1]]
    ELSE [pc |-> "final",
          lv |-> [l EXCEPT !.SubFlux = SubFlux,
                           !.Total = FMul[SubFlux, l.prob_occurence],
                           !.evals = l.evals + 1]]

\* rtnewt has returned: the rest of shear_stress, get_thresh and the test
\* that decides whether CalcSubFlux is called
Threshold ==
    /\ pc = "shear"
    /\ rt.pc = "done"
    /\ \E sh \in {ShearRest(rt.ret, lv.U, in.ZO)} :
       \E utshear \in {get_thresh(in.Tair, in.SurfaceLiquidWater, lv.U, in.ZO,
                                  lv.prob_occurence, VAR_THRESHOLD, sh.ushear)} :
         IF Transports(sh.ushear, utshear, in.EactAir, in.es)
         THEN \E c \in {SubFluxStart(in.EactAir, in.es, in.Zrh, in.AirDens,
                                     utshear, sh.ushear, lv.fe, lv.U,
                                     sh.Zo_salt, lv.F)} :
                /\ q' = c.q
                /\ lv' = [lv EXCEPT !.ushear = sh.ushear,
                                    !.Zo_salt = sh.Zo_salt,
                                    !.utshear = utshear,
                                    !.SubFlux = c.SubFlux, !.asked = TRUE,
                                    !.nq = lv.nq + 1]
                /\ pc' = "flux"
         ELSE \E a \in {Accumulate([lv EXCEPT !.ushear = sh.ushear,
                                              !.Zo_salt = sh.Zo_salt,
                                              !.utshear = utshear], Zero)} :
                q' = q /\ lv' = a.lv /\ pc' = a.pc
    /\ rt' = [rt EXCEPT !.pc = "idle"]
    /\ UNCHANGED <<in, trapzd_s, cq>>

\* qromb calls trapzd for refinement q.j: trapzd up to its summation
QrombBegin ==
    /\ pc = "flux"
    /\ q.pc = "loop"
    /\ \E cnt \in PointCounts(q.j) : q' = TrapzdBegin(q, cnt)
    /\ UNCHANGED <<pc, in, lv, rt, trapzd_s, cq>>

\* trapzd adds one value of the integrand: sum += sub_with_height(x, ..., 0)
QrombPoint ==
    /\ pc = "flux"
    /\ q.pc = "sum"
    /\ q.k <= q.todo
    /\ \E sum \in {FAdd[q.sum, sub_with_height[q.x, q.args, 0]]} :
         q' = TrapzdAdded(q, sum)
    /\ UNCHANGED <<pc, in, lv, rt, trapzd_s, cq>>

\* trapzd stores its value in the static s and returns it; qromb finishes
\* the pass of its loop
QrombEnd ==
    /\ pc = "flux"
    /\ q.pc = "sum"
    /\ q.k > q.todo
    /\ \E heap \in (IF q.j >= K THEN HeapOutcomes ELSE {"ok"}) :
       \E sj \in {TrapzdValue(q, trapzd_s)} :
       \E r \in {QrombTest(QrombStored(q, trapzd_s, sj), heap)} :
         /\ q' = r
         /\ trapzd_s' = sj
         /\ pc' = IF r.pc \in {"exit", "killed"} THEN r.pc ELSE pc
    /\ UNCHANGED <<in, lv, rt, cq>>

\* qromb after MAX_ITER refinements: nrerror ends the process
QrombTooMany ==
    /\ pc = "flux"
    /\ q.pc = "toomany"
    /\ q' = [q EXCEPT !.pc = "exit", !.msg = "Too many steps in routine qromb"]
    /\ pc' = "exit"
    /\ UNCHANGED <<in, lv, rt, trapzd_s, cq>>

\* qromb has returned: the rest of CalcSubFlux and the sum of the driver
FluxDone ==
    /\ pc = "flux"
    /\ q.pc = "done"
    /\ \E a \in {Accumulate(lv, FAdd[lv.SubFlux, q.ret])} :
         lv' = a.lv /\ pc' = a.pc
    /\ q' = [q EXCEPT !.pc = "idle"]
    /\ UNCHANGED <<in, rt, trapzd_s, cq>>

\* the final test of Total and the return
Return ==
    /\ pc = "final"
    /\ lv' = [lv EXCEPT !.ret = ClampTotal(lv.Total)]
    /\ pc' = "returned"
    /\ UNCHANGED <<in, rt, q, trapzd_s, cq>>

---------------------------------------------------------------------------
(* The calls that are explored.                                            *)

\* a call over dry snow in a light wind that varies in space: in the
\* strongest winds of the distribution snow is transported
Base ==
    [Dt |-> One, Tair |-> Lit(-10, 0), LastSnow |-> 5,
     SurfaceLiquidWater |-> Zero, Wind |-> Lit(205, -2), Ls |-> Lit(2838, 3),
     AirDens |-> Lit(13, -1), Press |-> Lit(1013, 2), EactAir |-> Lit(200, 0),
     es |-> Lit(25914278, -5), ZO |-> Lit(5, -3), Zrh |-> Two,
     snowdepth |-> One, lag_one |-> Lit(9, -1), sigma_slope |-> Lit(5, -2),
     Tsnow |-> Lit(-10, 0), iveg |-> 0, Nveg |-> 1, fe |-> Lit(1500, 0),
     displacement |-> Lit(4, -1), roughness |-> Lit(5, -2)]

\* the air is saturated
Moist(c) == [c EXCEPT !.EactAir = c.es]

\* the terrain is flat: sigma_w is 0
Flat(c) == [c EXCEPT !.sigma_slope = Zero]

Scenarios ==
    { Base,
      [Base EXCEPT !.snowdepth = Zero],
      [Base EXCEPT !.snowdepth = Lit(-1, 0)],
      [Base EXCEPT !.snowdepth = Zero, !.Wind = Zero],
      Flat([Base EXCEPT !.snowdepth = Lit(-1, 0), !.Wind = Lit(30, 0)]),
      Moist([Base EXCEPT !.snowdepth = Zero, !.Wind = Lit(1, 308)]),
      [Base EXCEPT !.snowdepth = Lit(-5, -1), !.Zrh = Lit(-2, 0)],
      Moist([Base EXCEPT !.Wind = Lit(8, 0)]),
      Moist([Base EXCEPT !.Wind = Lit(8, 0), !.snowdepth = Lit(3, -1)]),
      Flat([Base EXCEPT !.Wind = Lit(30, 0)]),
      Flat(Moist([Base EXCEPT !.Wind = Lit(8, 0)])),
      [Base EXCEPT !.Wind = Zero],
      [Base EXCEPT !.Wind = Lit(8, 0), !.Zrh = Lit(-2, 0)],
      Moist([Base EXCEPT !.Wind = Lit(1, 308)]),
      Moist([Base EXCEPT !.Wind = Lit(8, 0), !.sigma_slope = Lit(-5, -2)]) }

Init ==
    /\ in \in Scenarios
    /\ pc = "start"
    /\ lv = LvInit
    /\ rt = RtIdle
    /\ q = QrombIdle
    /\ trapzd_s = Zero
    /\ cq = << >>

Next ==
    \/ Enter
    \/ Interval
    \/ DetBranch
    \/ RtnewtStep
    \/ RtnewtGiveUp
    \/ Threshold
    \/ QrombBegin
    \/ QrombPoint
    \/ QrombEnd
    \/ QrombTooMany
    \/ FluxDone
    \/ Return

Spec == Init /\ [][Next]_vars

\* a call in progress takes its next step
FairSpec == Spec /\ WF_vars(Next)

---------------------------------------------------------------------------
(* rtnewt run alone, on a catalogue of calls.                              *)

\* the arguments of the calls: those of shear_stress for six wind speeds Ur
\* (with Ur = 0 both endpoint values are negative, with a NaN no test of
\* rtnewt succeeds) and two roughness lengths ZO, and calls whose endpoint
\* values are both positive, or zero at x1, or zero at x2, or of either sign
\* at x1
RtArgs ==
    { [x1 |-> Lit(1, -7), x2 |-> FAdd[ShearTemp(u, z), Lit(5, 0)],
       acc |-> Lit(1, -6), Ur |-> u, Zr |-> Lit(10, 0)] :
          u \in {Lit(4, -1), Lit(5, 0), Lit(146, -1), Lit(25, 0), Zero, NaN},
          z \in {Lit(5, -3), Lit(3, -2)} }
    \cup
    { [x1 |-> Lit(1, -7), x2 |-> Lit(5, 0), acc |-> Lit(1, -6), Ur |-> Zero,
       Zr |-> Zero],
      [x1 |-> Lit(1, -7), x2 |-> Lit(5, 0), acc |-> Lit(1, -6),
       Ur |-> Lit(-1, 0), Zr |-> Zero],
      [x1 |-> Lit(5, 0), x2 |-> Lit(1, -7), acc |-> Lit(1, -6),
       Ur |-> Lit(-1, 0), Zr |-> Zero],
      [x1 |-> Lit(1, 0), x2 |-> Lit(100, 0), acc |-> Lit(1, -6), Ur |-> Zero,
       Zr |-> Lit(10, 0)],
      [x1 |-> Lit(10, 0), x2 |-> Lit(1, -1), acc |-> Lit(1, -6),
       Ur |-> Lit(5, 0), Zr |-> Lit(10, 0)] }

\* rtnewt is called: the endpoint values are computed
InitRt ==
    /\ pc = "rtnewt"
    /\ rt \in {RtCall(a.x1, a.x2, a.acc, a.Ur, a.Zr,
                      get_shear[a.x1, a.Ur, a.Zr].f,
                      get_shear[a.x2, a.Ur, a.Zr].f) : a \in RtArgs}
    /\ in = Base
    /\ lv = LvInit
    /\ q = QrombIdle
    /\ trapzd_s = Zero
    /\ cq = << >>

\* rtnewt from the test of the endpoint values to the head of its loop
RtnewtCall ==
    /\ pc = "rtnewt"
    /\ rt.pc = "call"
    /\ rt' = RtEnter(rt)
    /\ UNCHANGED <<pc, in, lv, q, trapzd_s, cq>>

NextRt ==
    \/ RtnewtCall
    \/ RtnewtStep
    \/ RtnewtGiveUp

SpecRt == InitRt /\ [][NextRt]_vars

---------------------------------------------------------------------------
(* Two invocations whose integrations run concurrently.                    *)

\* the refinements each of the two integrations is followed through
MaxRefine == 3

\* the integrations CalcSubFlux starts in the calls Base (in the last wind
\* interval) and Flat([Base EXCEPT !.Wind = Lit(30, 0)])
ConcCalls ==
    << SubFluxStart(Lit(200, 0), Lit(25914278, -5), Two, Lit(13, -1),
                    Lit(14612462, -8), Lit(17243728, -8), Lit(1500, 0),
                    Lit(32766974, -7), Lit(5, -3), Lit(34094421, 0)).q,
       SubFluxStart(Lit(200, 0), Lit(25914278, -5), Two, Lit(13, -1),
                    Lit(41889762, -8), Lit(28802144, -7), Lit(1500, 0),
                    Lit(380428, -4), Lit(5075516, -8), Lit(34094421, 0)).q >>

InitConc ==
    /\ pc = "conc"
    /\ cq = ConcCalls
    /\ trapzd_s = Zero
    /\ in = Base
    /\ lv = LvInit
    /\ rt = RtIdle
    /\ q = QrombIdle

\* invocation t: qromb calls trapzd, which runs up to its summation
ConcBegin ==
    /\ pc = "conc"
    /\ \E t \in 1..2 :
         /\ cq[t].pc = "loop"
         /\ cq[t].j <= MaxRefine
         /\ \E cnt \in PointCounts(cq[t].j) :
              cq' = [cq EXCEPT ![t] = TrapzdBegin(cq[t], cnt)]
    /\ UNCHANGED <<pc, in, lv, rt, q, trapzd_s>>

\* invocation t: trapzd adds one value of the integrand to its sum
ConcPoint ==
    /\ pc = "conc"
    /\ \E t \in 1..2 :
         /\ cq[t].pc = "sum"
         /\ cq[t].k <= cq[t].todo
         /\ \E sum \in {FAdd[cq[t].sum,
                             sub_with_height[cq[t].x, cq[t].args, 0]]} :
              cq' = [cq EXCEPT ![t] = TrapzdAdded(cq[t], sum)]
    /\ UNCHANGED <<pc, in, lv, rt, q, trapzd_s>>

\* invocation t: trapzd reads the static s, stores its value there and
\* returns it; qromb finishes the pass of its loop
ConcEnd ==
    /\ pc = "conc"
    /\ \E t \in 1..2 :
         /\ cq[t].pc = "sum"
         /\ cq[t].k > cq[t].todo
         /\ \E heap \in (IF cq[t].j >= K THEN HeapOutcomes ELSE {"ok"}) :
            \E sj \in {TrapzdValue(cq[t], trapzd_s)} :
              /\ cq' = [cq EXCEPT ![t] = QrombTest(QrombStored(cq[t], trapzd_s,
                                                               sj), heap)]
              /\ trapzd_s' = sj
    /\ UNCHANGED <<pc, in, lv, rt, q>>

NextConc ==
    \/ ConcBegin
    \/ ConcPoint
    \/ ConcEnd

SpecConc == InitConc /\ [][NextConc]_vars

---------------------------------------------------------------------------
(* The claims.                                                             *)

\* C1: in a call with snowdepth <= 0 the process is never ended, neither
\* rtnewt nor qromb is ever called, no evaluation of the flux is made, and
\* the value returned is exactly 0
C1_NoSnowNoFlux ==
    FLe[in.snowdepth, Zero] =>
        /\ pc \in {"start", "final", "returned"}
        /\ lv.nrt = 0 /\ lv.nq = 0 /\ lv.evals = 0
        /\ rt.pc = "idle" /\ q.pc = "idle"
        /\ lv.Total = Zero
        /\ (pc = "returned" => lv.ret = Zero)

\* a call with a negative snowdepth has returned
C1_Returned == pc = "returned" /\ FLt[in.snowdepth, Zero]

\* C2: after every evaluation of the flux (an interval of the spatial
\* branch, or the one of the deterministic branch) in which ushear <= utshear
\* or EactAir >= es, CalcSubFlux was not called, SubFlux is exactly 0 and
\* Total is what it was before the evaluation (spatial branch) or 0
\* (deterministic branch); and in a call with EactAir >= es qromb is never
\* called and Total is 0 throughout
C2_NoTransportNoFlux ==
    /\ (/\ pc \in {"loop", "final", "returned"}
        /\ lv.evals > 0
        /\ (FLe[lv.ushear, lv.utshear] \/ FGe[in.EactAir, in.es]))
       => /\ ~lv.asked
          /\ lv.SubFlux = Zero
          /\ lv.Total = (IF lv.branch = "spatial" THEN lv.before ELSE Zero)
    /\ FGe[in.EactAir, in.es]
       => lv.nq = 0 /\ lv.Total = Zero /\ lv.ret = Zero

\* a call in saturated air has returned after ten evaluations, the last one
\* with ushear above utshear
C2_SaturatedReturned ==
    /\ pc = "returned"
    /\ lv.evals = NUMINCS
    /\ FGe[in.EactAir, in.es]
    /\ FGt[lv.ushear, lv.utshear]

\* C3: every wind speed handed to shear_stress, get_thresh and CalcSubFlux
\* lies within [0.4, 25]
C3_WindWithinRange ==
    lv.nrt > 0 => FGe[lv.U, Lit(4, -1)] /\ FLe[lv.U, Lit(25, 0)]

\* C4: the value returned is >= -5e-5: it is -0.00005 if Total is below
\* -0.00005 and Total otherwise
C4_ReturnFloor ==
    pc = "returned" =>
        /\ FGe[lv.ret, Lit(-5, -5)]
        /\ lv.ret = (IF FLt[lv.Total, Lit(-5, -5)] THEN Lit(-5, -5)
                     ELSE lv.Total)

\* a call has returned -0.00005 for a Total below it
C4_Clamped ==
    pc = "returned" /\ FLt[lv.Total, Lit(-5, -5)] /\ lv.ret = Lit(-5, -5)

\* C5: in two concurrent invocations, the value of the running trapezoid
\* estimate each trapzd reads is the one the same invocation stored last
C5_NoForeignSum == \A t \in DOMAIN cq : cq[t].read = cq[t].own

\* v lies in the interval between a and b, in either orientation
Between(v, a, b) ==
    (FLe[a, v] /\ FLe[v, b]) \/ (FLe[b, v] /\ FLe[v, a])

\* C6: once rtnewt has tested the endpoint values fl and fh: if both are
\* > 0 or both are < 0 it has printed the diagnostic, ended the process and
\* returned nothing; if exactly one of them is 0 it has returned that
\* endpoint without a pass of its loop
C6_Bracketing ==
    rt.pc \notin {"call", "idle"} =>
        /\ ((FGt[rt.fl, Zero] /\ FGt[rt.fh, Zero])
             \/ (FLt[rt.fl, Zero] /\ FLt[rt.fh, Zero]))
           => /\ rt.pc = "exit"
              /\ rt.msg = "Root must be bracketed in rtnewt."
              /\ rt.passes = 0
        /\ (FEq[rt.fl, Zero] /\ FNe[rt.fh, Zero])
           => rt.pc = "done" /\ rt.ret = rt.x1 /\ rt.passes = 0
        /\ (FEq[rt.fh, Zero] /\ FNe[rt.fl, Zero])
           => rt.pc = "done" /\ rt.ret = rt.x2 /\ rt.passes = 0

\* rtnewt alone has ended the process on two positive endpoint values
C6_BothPositive ==
    pc = "rtnewt" /\ rt.pc = "exit" /\ FGt[rt.fl, Zero] /\ FGt[rt.fh, Zero]

\* C7: every call eventually returns a flux or ends with an error the
\* program reported, and until then rtnewt has begun at most MAX_ITER passes
\* and qromb at most MAX_ITER refinements
C7_Terminates ==
    /\ [](rt.passes <= MAX_ITER /\ q.j <= MAX_ITER + 1)
    /\ <>(pc \in {"returned", "exit"})

\* C8: the point a Newton step of rtnewt produces lies within the bracket
\* [xl, xh] the step started from (in a call whose wind speed Ur is a number)
C8_NewtonInsideBracket ==
    (rt.step = "newton" /\ ~IsNaN(rt.Ur)) => Between(rt.rts, rt.pxl, rt.pxh)

\* C9: for every refinement n >= 2 the point count of trapzd is 2^(n-2),
\* computed without integer overflow (an int holds 2^(n-2) up to n-2 = 30)
C9_PointCount ==
    (pc = "flux" /\ q.pc = "sum" /\ q.j >= 2) =>
        ~q.ovf /\ q.j - 2 <= 30 /\ q.it = 2 ^ (q.j - 2)

\* C10: in the deterministic branch Uveg and prob_occurence are computed
\* from Uo, no variable is read before it is assigned, and the Total
\* returned is SubFlux * prob_occurence
C10_DeterministicFromUo ==
    (lv.branch = "det" /\ lv.nrt > 0) =>
        /\ ~lv.uninit
        /\ lv.Uveg = VegWind(lv.Uo, in.snowdepth, lv.hv, lv.Nd)
        /\ lv.prob_occurence
             = get_prob(in.Tair, lv.Age, in.SurfaceLiquidWater, lv.Uveg)
        /\ (pc = "returned" => lv.Total = FMul[lv.SubFlux, lv.prob_occurence])

\* C11: the "probability ranges" fallback of the wind loop is unreachable:
\* whenever the spatial-wind loop runs with sigma_w != 0 and |sigma_w| <= 10,
\* the clamped limits of every interval satisfy lower >= Uo or upper <= Uo,
\* and the branch that prints the diagnostic and sets U10 = 0.4 never runs
C11_RangesUnreachable ==
    (lv.branch = "spatial" /\ lv.nrt > 0 /\ FNe[lv.sigma_w, Zero]
                           /\ FLe[FAbs[lv.sigma_w], Lit(10, 0)])
        => /\ FGe[lv.lower, lv.Uo] \/ FLe[lv.upper, lv.Uo]
           /\ ~lv.ranges

\* C12: every array access made during an integration is within the bounds of
\* the array it indexes: polint, called with n = K, reads and writes its work
\* arrays c and d (n elements each, indices 0..n-1) only inside the
\* allocation and reads xa and ya only inside h and s, and qromb writes s and
\* h only inside s[MAX_ITER+1] (indices 0..MAX_ITER) and h[MAX_ITER+2]
\* (indices 0..MAX_ITER+1)
C12_AccessesInBounds ==
    /\ q.used # {} => q.used \subseteq 0..(q.size - 1)
    /\ q.seen \subseteq 0..MAX_ITER
    /\ DOMAIN q.s \subseteq 0..MAX_ITER
    /\ DOMAIN q.h \subseteq 0..(MAX_ITER + 1)

=============================================================================
